---- MODULE Spec2Model ----
(***************************************************************************)
(* Model of src/lambda_function.py: one Lambda process that is loaded once *)
(* (module-level timestamp and S3 keys) and then invoked repeatedly.  Each *)
(* invocation runs lambda_handler: secret lookup, three kinds of Calendly  *)
(* GET calls, upload of the raw frame, metrics, upload of the metrics.     *)
(* External services (Secrets Manager, Calendly, S3) answer                *)
(* nondeterministically, including by raising.                             *)
(***************************************************************************)
EXTENDS Integers, Sequences, FiniteSets, TLC

\* ---- bounds ------------------------------------------------------------
MaxTypes == 3        \* event types the organization can have
MaxEvents == 1       \* events in one scheduled_events collection
MaxRuns == 2         \* invocations of lambda_handler in one process

VARIABLES
    clock,          \* wall clock, read once at module load
    timestamp,      \* module global `timestamp`
    runs,           \* invocations started so far
    pc,             \* position of the current invocation
    secret,         \* what Secrets Manager answered in this invocation
    api_key,        \* local api_key of lambda_handler
    org_uri,        \* local org_uri of fetch_calendly_scheduled_calls
    event_types,    \* local event_types
    idx,            \* position of the for loop over event_types
    all_events,     \* local all_events
    calendly_df,    \* local calendly_df of lambda_handler
    metrics_df,     \* local metrics_df of lambda_handler
    httpCalls,      \* requests.get calls issued in this invocation
    putCalls,       \* s3_client.put_object calls issued in this invocation
    uploads,        \* upload_to_s3 calls made in this invocation
    steps,          \* steps entered in this invocation, in order
    s3Keys,         \* keys of the bucket that hold a blob
    result,         \* statusCode returned (0: none yet, -1: exception escaped)
    obs             \* what callers saw of finished zero-event invocations

vars == <<clock, timestamp, runs, pc, secret, api_key, org_uri, event_types,
          idx, all_events, calendly_df, metrics_df, httpCalls, putCalls,
          uploads, steps, s3Keys, result, obs>>

\* ---- values ------------------------------------------------------------
None == "None"
Absent == "<absent>"      \* a key the JSON object does not have
S3_BUCKET_NAME == "calendly-vitor"
S3_FOLDER_PATH == "calendly/"

\* datetime.datetime.now() when the module is loaded.
LoadTime == 0

\* The two object keys, fixed when the module is loaded.
S3_CALENDLY_PATH == <<S3_FOLDER_PATH, "calendly_scheduled_calls", timestamp>>
\* (variant: the key is formatted from the clock when it is used)
S3_METRICS_PATH_now == <<S3_FOLDER_PATH, "campaign_metrics", clock>>
S3_METRICS_PATH == <<S3_FOLDER_PATH, "campaign_metrics", timestamp>>

EventColumns ==
    <<"event_id", "event_type", "start_time", "end_time", "status", "invitee_email">>
MetricsColumns ==
    <<"timestamp", "total_scheduled_calls", "completed_calls", "completed_calls_percentage">>

\* (variant: pd.DataFrame(columns=...), an empty frame that has the columns)
EmptyDataFrame_cols == [columns |-> EventColumns, rows |-> <<>>]
\* pd.DataFrame(): no rows and no columns.
EmptyDataFrame == [columns |-> <<>>, rows |-> <<>>]

\* pd.DataFrame(list of dicts): the columns are the keys of the dicts, so a
\* frame built from an empty list has no columns either.
DataFrame(records, columns) ==
    IF records = <<>> THEN [columns |-> <<>>, rows |-> <<>>]
    ELSE [columns |-> columns, rows |-> records]

\* A local that has not been assigned yet.
Unbound == [columns |-> <<"<unbound>">>, rows |-> <<>>]

\* (variant: the emptiness test is missing)
df_empty_never(df) == FALSE
\* df.empty: some axis has length 0.
df_empty(df) == Len(df.rows) = 0 \/ Len(df.columns) = 0

\* df.to_csv(buffer, index=False): a header line, then one line per row with
\* the values in column order.
ToCsv(df) ==
    <<df.columns>> \o
    [i \in 1..Len(df.rows) |->
        [j \in 1..Len(df.columns) |-> df.rows[i][df.columns[j]]]]

\* ---- what the external services can answer -------------------------------
SecretOutcomes == {"lookup_error", "parse_error", "missing_key", "ok"}

\* GET /users/me
OrgResponses ==
    { [status |-> 0,   exc |-> "RequestException", org |-> ""],
      [status |-> 200, exc |-> "ValueError",       org |-> ""],
      [status |-> 404, exc |-> "",                 org |-> "org/zzz"],
      [status |-> 200, exc |-> "",                 org |-> ""],
      [status |-> 200, exc |-> "",                 org |-> "org/abc"] }

\* The lists /event_types can answer with: the organization's event types
\* n, ..., 1, newest first.
TypeLists ==
    { [i \in 1..n |-> n + 1 - i] : n \in 0..MaxTypes }

\* GET /event_types
TypesResponses ==
    { [status |-> 0,   exc |-> "RequestException", collection |-> <<>>],
      [status |-> 404, exc |-> "",                 collection |-> <<>>] }
    \cup { [status |-> 200, exc |-> "", collection |-> l] : l \in TypeLists }

\* The collections GET /scheduled_events can hold for event type t: n events,
\* the first k of them completed, the others without a status.
Collections(t) ==
    { [i \in 1..n |-> [uri |-> 10 * t + i, event_type |-> t,
                       status |-> IF i <= k THEN "completed" ELSE Absent]]
      : <<n, k>> \in { nk \in (0..MaxEvents) \X (0..MaxEvents) : nk[2] <= nk[1] } }

\* GET /scheduled_events
EventsResponses(t) ==
    { [status |-> 0,   exc |-> "RequestException", collection |-> <<>>],
      [status |-> 404, exc |-> "",                 collection |-> <<>>] }
    \cup { [status |-> 200, exc |-> "", collection |-> c] : c \in Collections(t) }

PutOutcomes == {"ok", "ClientError"}

\* ---- pure parts of the code ----------------------------------------------
\* get_calendly_org_uri: the organization on 200, None otherwise.
get_calendly_org_uri(resp) ==
    IF resp.status = 200 THEN resp.org ELSE None

\* (variant: `org_uri == ""`)
IsFalsy_emptyonly(u) == u = ""
\* `not org_uri`
IsFalsy(u) == u = None \/ u = ""

\* get_event_types: the uris of the collection on 200, [] otherwise.
get_event_types(resp) ==
    IF resp.status = 200 THEN resp.collection ELSE <<>>

\* The record built for one event of a collection (dict.get with defaults).
Flatten(event) ==
    [event_id      |-> event.uri,
     event_type    |-> event.event_type,
     start_time    |-> "",
     end_time      |-> "",
     status        |-> IF event.status = Absent THEN "N/A" ELSE event.status,
     invitee_email |-> "N/A"]

\* (variant: a non-200 answer discards what was collected)
AppendEvents_reset(events, resp) ==
    IF resp.status = 200
    THEN events \o [i \in 1..Len(resp.collection) |-> Flatten(resp.collection[i])]
    ELSE <<>>
\* One pass of the loop body: extend all_events on 200, leave it alone otherwise.
AppendEvents(events, resp) ==
    IF resp.status = 200
    THEN events \o [i \in 1..Len(resp.collection) |-> Flatten(resp.collection[i])]
    ELSE events

\* round(c / t * 100, 2), in hundredths of a percent.
Round2(c, t) == (20000 * c + t) \div (2 * t)

RECURSIVE CountCompleted(_)
CountCompleted(rows) ==
    IF rows = <<>> THEN 0
    ELSE (IF rows[1]["status"] = "completed" THEN 1 ELSE 0) + CountCompleted(Tail(rows))

\* calendly_df["status"] raises KeyError when the frame has no such column.
HasColumn(df, c) == \E j \in 1..Len(df.columns) : df.columns[j] = c

\* calculate_metrics, for a frame that has a status column.
calculate_metrics(df) ==
    LET total_scheduled_calls == Len(df.rows)
        completed_calls == CountCompleted(df.rows)
        completed_calls_percentage ==
            IF total_scheduled_calls > 0
            THEN Round2(completed_calls, total_scheduled_calls) ELSE 0
    IN  [columns |-> MetricsColumns,
         rows |-> << [timestamp |-> timestamp,
                      total_scheduled_calls |-> total_scheduled_calls,
                      completed_calls |-> completed_calls,
                      completed_calls_percentage |-> completed_calls_percentage] >>]

\* (variant: `except requests.RequestException`)
Catches_requests_only(e) == e = "RequestException"
\* `except Exception` of lambda_handler.
Catches(e) == TRUE

\* Status code the host sees when a step raises e (-1: e escaped).
HandlerResult(e) == IF Catches(e) THEN 500 ELSE -1

\* (variant: the metrics are calculated before the raw upload)
HandlerOrder_aggregate_first == <<"cred", "fetch", "metrics", "upload_raw", "upload_metrics">>
\* The statements of the try block, in program order.
HandlerOrder == <<"cred", "fetch", "upload_raw", "metrics", "upload_metrics">>

NextStep(s) ==
    LET i == CHOOSE j \in 1..Len(HandlerOrder) : HandlerOrder[j] = s
    IN  IF i = Len(HandlerOrder) THEN "return" ELSE HandlerOrder[i + 1]

Entry(s) == IF s = "fetch" THEN "org" ELSE s

\* put_object calls that returned.
Performed(puts) == SelectSeq(puts, LAMBDA p : p.ok)

\* What a caller can see of an invocation that extracted zero events, and why
\* the extraction was empty.
ZeroObs(code, df, calls, puts) ==
    IF df # Unbound /\ Len(df.rows) = 0
    THEN { [cause |-> IF \E i \in 1..Len(calls) : calls[i].status # 200
                      THEN "upstream_error" ELSE "none_exist",
            statusCode |-> code,
            writes |-> Performed(puts)] }
    ELSE {}

\* ---- control -------------------------------------------------------------
\* The invocation ends with status `code`.
Finish(code, df, calls, puts) ==
    /\ pc' = "done"
    /\ result' = code
    /\ obs' = obs \cup ZeroObs(code, df, calls, puts)

\* Statement s raised e: the except clause of lambda_handler.
Raise(e, df, calls, puts) == Finish(HandlerResult(e), df, calls, puts)

\* Statement s completed: go to the next one, or return 200.
Continue(s, df, calls, puts) ==
    IF NextStep(s) = "return"
    THEN Finish(200, df, calls, puts)
    ELSE /\ pc' = Entry(NextStep(s))
         /\ UNCHANGED <<result, obs>>

Init ==
    /\ clock = LoadTime
    /\ timestamp = clock
    /\ runs = 0
    /\ pc = "idle"
    /\ secret = ""
    /\ api_key = None
    /\ org_uri = None
    /\ event_types = <<>>
    /\ idx = 1
    /\ all_events = <<>>
    /\ calendly_df = Unbound
    /\ metrics_df = Unbound
    /\ httpCalls = <<>>
    /\ putCalls = <<>>
    /\ uploads = <<>>
    /\ steps = <<>>
    /\ s3Keys = {}
    /\ result = 0
    /\ obs = {}

\* The host calls lambda_handler (again): fresh locals, later wall clock.
Invoke ==
    /\ pc \in {"idle", "done"}
    /\ runs < MaxRuns
    /\ runs' = runs + 1
    /\ clock' = clock + 1
    /\ pc' = Entry(HandlerOrder[1])
    /\ secret' = ""
    /\ api_key' = None
    /\ org_uri' = None
    /\ event_types' = <<>>
    /\ idx' = 1
    /\ all_events' = <<>>
    /\ calendly_df' = Unbound
    /\ metrics_df' = Unbound
    /\ httpCalls' = <<>>
    /\ putCalls' = <<>>
    /\ uploads' = <<>>
    /\ steps' = <<>>
    /\ result' = 0
    /\ UNCHANGED <<timestamp, s3Keys, obs>>

\* api_key = get_calendly_api_key()
GetApiKey ==
    /\ pc = "cred"
    /\ steps' = Append(steps, "credential")
    /\ \E o \in SecretOutcomes :
        /\ secret' = o
        /\ \/ /\ o = "lookup_error"
              /\ Raise("ClientError", calendly_df, httpCalls, putCalls)
              /\ UNCHANGED api_key
           \/ /\ o = "parse_error"
              /\ Raise("ValueError", calendly_df, httpCalls, putCalls)
              /\ UNCHANGED api_key
           \/ /\ o = "missing_key"
              /\ api_key' = None
              /\ Continue("cred", calendly_df, httpCalls, putCalls)
           \/ /\ o = "ok"
              /\ api_key' = "tok123"
              /\ Continue("cred", calendly_df, httpCalls, putCalls)
    /\ UNCHANGED <<clock, timestamp, runs, org_uri, event_types, idx, all_events,
                   calendly_df, metrics_df, httpCalls, putCalls, uploads, s3Keys>>

Call(endpoint, arg, resp) ==
    [endpoint |-> endpoint, arg |-> arg, auth |-> api_key,
     status |-> resp.status, exc |-> resp.exc,
     collection |-> IF endpoint = "scheduled_events" THEN resp.collection ELSE <<>>]

\* fetch_calendly_scheduled_calls, lines 88-91
GetOrgUri ==
    /\ pc = "org"
    /\ steps' = Append(steps, "organization")
    /\ \E resp \in OrgResponses :
        LET calls == Append(httpCalls, Call("users/me", 0, resp)) IN
        /\ httpCalls' = calls
        /\ IF resp.exc # ""
           THEN /\ Raise(resp.exc, calendly_df, calls, putCalls)
                /\ UNCHANGED <<org_uri, calendly_df>>
           ELSE /\ org_uri' = get_calendly_org_uri(resp)
                /\ IF IsFalsy(org_uri')
                   THEN /\ calendly_df' = EmptyDataFrame
                        /\ Continue("fetch", EmptyDataFrame, calls, putCalls)
                   ELSE /\ pc' = "types"
                        /\ UNCHANGED <<calendly_df, result, obs>>
    /\ UNCHANGED <<clock, timestamp, runs, secret, api_key, event_types, idx,
                   all_events, metrics_df, putCalls, uploads, s3Keys>>

\* fetch_calendly_scheduled_calls, lines 93-98
GetEventTypes ==
    /\ pc = "types"
    /\ steps' = Append(steps, "event_types")
    /\ \E resp \in TypesResponses :
        LET calls == Append(httpCalls, Call("event_types", 0, resp)) IN
        /\ httpCalls' = calls
        /\ IF resp.exc # ""
           THEN /\ Raise(resp.exc, calendly_df, calls, putCalls)
                /\ UNCHANGED <<event_types, calendly_df>>
           ELSE /\ event_types' = get_event_types(resp)
                /\ IF event_types' = <<>>
                   THEN /\ calendly_df' = EmptyDataFrame
                        /\ Continue("fetch", EmptyDataFrame, calls, putCalls)
                   ELSE /\ pc' = "list"
                        /\ UNCHANGED <<calendly_df, result, obs>>
    /\ UNCHANGED <<clock, timestamp, runs, secret, api_key, org_uri, idx,
                   all_events, metrics_df, putCalls, uploads, s3Keys>>

\* fetch_calendly_scheduled_calls, lines 100-119: one pass of the loop, and
\* the return after the last pass.
ListEvents ==
    /\ pc = "list"
    /\ idx <= Len(event_types)
    /\ steps' = Append(steps, "events")
    /\ \E resp \in EventsResponses(event_types[idx]) :
        LET calls == Append(httpCalls, Call("scheduled_events", event_types[idx], resp)) IN
        /\ httpCalls' = calls
        /\ IF resp.exc # ""
           THEN /\ Raise(resp.exc, calendly_df, calls, putCalls)
                /\ UNCHANGED <<idx, all_events, calendly_df>>
           ELSE /\ all_events' = AppendEvents(all_events, resp)
                /\ idx' = idx + 1
                /\ IF idx = Len(event_types)
                   THEN /\ calendly_df' = DataFrame(all_events', EventColumns)
                        /\ Continue("fetch", calendly_df', calls, putCalls)
                   ELSE /\ pc' = "list"
                        /\ UNCHANGED <<calendly_df, result, obs>>
    /\ UNCHANGED <<clock, timestamp, runs, secret, api_key, org_uri, event_types,
                   metrics_df, putCalls, uploads, s3Keys>>

\* upload_to_s3(df, s3_path), called as statement s of lambda_handler.
Upload(s, df, s3_path) ==
    /\ steps' = Append(steps, "persist")
    /\ IF df_empty(df)
       THEN /\ uploads' = Append(uploads, [df |-> df, s3_path |-> s3_path,
                                           calls |-> <<>>, raised |-> FALSE])
            /\ Continue(s, calendly_df, httpCalls, putCalls)
            /\ UNCHANGED <<putCalls, s3Keys>>
       ELSE \E o \in PutOutcomes :
            LET put == [Bucket |-> S3_BUCKET_NAME, Key |-> s3_path,
                        Body |-> ToCsv(df), ok |-> (o = "ok")]
                puts == Append(putCalls, put)
            IN  /\ putCalls' = puts
                /\ uploads' = Append(uploads, [df |-> df, s3_path |-> s3_path,
                                               calls |-> <<put>>, raised |-> (o # "ok")])
                /\ IF o = "ok"
                   THEN /\ s3Keys' = s3Keys \cup {s3_path}
                        /\ Continue(s, calendly_df, httpCalls, puts)
                   ELSE /\ UNCHANGED s3Keys
                        /\ Raise(o, calendly_df, httpCalls, puts)

\* upload_to_s3(calendly_df, S3_CALENDLY_PATH)
UploadRaw ==
    /\ pc = "upload_raw"
    /\ Upload("upload_raw", calendly_df, S3_CALENDLY_PATH)
    /\ UNCHANGED <<clock, timestamp, runs, secret, api_key, org_uri, event_types,
                   idx, all_events, calendly_df, metrics_df, httpCalls>>

\* metrics_df = calculate_metrics(calendly_df)
CalcMetrics ==
    /\ pc = "metrics"
    /\ steps' = Append(steps, "aggregate")
    /\ IF HasColumn(calendly_df, "status")
       THEN /\ metrics_df' = calculate_metrics(calendly_df)
            /\ Continue("metrics", calendly_df, httpCalls, putCalls)
       ELSE /\ Raise("KeyError", calendly_df, httpCalls, putCalls)
            /\ UNCHANGED metrics_df
    /\ UNCHANGED <<clock, timestamp, runs, secret, api_key, org_uri, event_types,
                   idx, all_events, calendly_df, httpCalls, putCalls, uploads, s3Keys>>

\* upload_to_s3(metrics_df, S3_METRICS_PATH)
UploadMetrics ==
    /\ pc = "upload_metrics"
    /\ Upload("upload_metrics", metrics_df, S3_METRICS_PATH)
    /\ UNCHANGED <<clock, timestamp, runs, secret, api_key, org_uri, event_types,
                   idx, all_events, calendly_df, metrics_df, httpCalls>>

Next ==
    \/ Invoke
    \/ GetApiKey
    \/ GetOrgUri
    \/ GetEventTypes
    \/ ListEvents
    \/ UploadRaw
    \/ CalcMetrics
    \/ UploadMetrics

Spec == Init /\ [][Next]_vars

TypeOK ==
    /\ pc \in {"idle", "cred", "org", "types", "list", "upload_raw", "metrics",
               "upload_metrics", "done"}
    /\ result \in {0, 200, 500, -1}
    /\ runs \in 0..MaxRuns

\* ---- properties ----------------------------------------------------------
Aggregated == \E i \in 1..Len(steps) : steps[i] = "aggregate"
ListingCalls == SelectSeq(httpCalls, LAMBDA c : c.endpoint = "scheduled_events")
MetricsRow == metrics_df.rows[1]

\* C1: aggregating an empty event set does not fail and reports
\* total_scheduled_calls = 0, completed_calls = 0 and
\* completed_calls_percentage = 0, for every empty set the extraction hands on.
C1_EmptyAggregateIsZero ==
    (Aggregated /\ Len(calendly_df.rows) = 0) =>
        /\ metrics_df # Unbound
        /\ result # 500
        /\ MetricsRow.total_scheduled_calls = 0
        /\ MetricsRow.completed_calls = 0
        /\ MetricsRow.completed_calls_percentage = 0

\* C2: after a non-200 answer to the organization lookup the extraction
\* returns an empty frame and the invocation issues no further HTTP call.
OrgLookupFailed ==
    /\ httpCalls # <<>>
    /\ httpCalls[1].endpoint = "users/me"
    /\ httpCalls[1].exc = ""
    /\ httpCalls[1].status # 200
C2_OrgFailureStopsExtraction ==
    OrgLookupFailed =>
        /\ Len(httpCalls) = 1
        /\ calendly_df # Unbound
        /\ Len(calendly_df.rows) = 0
C2_Witness ==
    OrgLookupFailed /\ pc = "done"

\* C3: the loop calls the event listing once per event type, in listing order,
\* goes on after a non-200 answer, and the frame returned holds exactly the
\* concatenation, in listing order, of the collections answered with 200.
RECURSIVE ConcatOk(_)
ConcatOk(calls) ==
    IF calls = <<>> THEN <<>>
    ELSE (IF calls[1].status = 200
          THEN [i \in 1..Len(calls[1].collection) |-> Flatten(calls[1].collection[i])]
          ELSE <<>>) \o ConcatOk(Tail(calls))
LoopReturned == event_types # <<>> /\ calendly_df # Unbound
C3_PartialFailureConcatenation ==
    /\ \A i \in 1..Len(ListingCalls) :
          i <= Len(event_types) /\ ListingCalls[i].arg = event_types[i]
    /\ (pc = "list") =>
          /\ Len(ListingCalls) = idx - 1
          /\ idx <= Len(event_types)
          /\ all_events = ConcatOk(ListingCalls)
    /\ LoopReturned =>
          /\ Len(ListingCalls) = Len(event_types)
          /\ calendly_df.rows = ConcatOk(ListingCalls)
C3_Witness ==
    /\ LoopReturned
    /\ Len(event_types) = 3
    /\ event_types[1] > event_types[2]
    /\ ListingCalls[1].status = 200 /\ Len(ListingCalls[1].collection) = 1
    /\ ListingCalls[2].status # 200
    /\ ListingCalls[3].status = 200 /\ Len(ListingCalls[3].collection) = 1
    /\ Len(calendly_df.rows) = 2

\* C4: upload_to_s3 issues no put_object call and returns normally for an
\* empty record set, and issues exactly one put_object call, to the key it was
\* given, for a non-empty record set; the body is the header line followed by
\* one line per record, values in column order.
C4_UploadWrites ==
    \A i \in 1..Len(uploads) :
        LET u == uploads[i] IN
        IF Len(u.df.rows) = 0
        THEN u.calls = <<>> /\ ~u.raised
        ELSE /\ Len(u.calls) = 1
             /\ u.calls[1].Key = u.s3_path
             /\ Len(u.calls[1].Body) = 1 + Len(u.df.rows)
             /\ u.calls[1].Body[1] = u.df.columns
             /\ \A k \in 1..Len(u.df.rows) :
                    /\ Len(u.calls[1].Body[k + 1]) = Len(u.df.columns)
                    /\ \A j \in 1..Len(u.df.columns) :
                           u.calls[1].Body[k + 1][j] = u.df.rows[k][u.df.columns[j]]
C4_Witness ==
    /\ Len(uploads) = 2
    /\ Len(uploads[1].df.rows) = 2
    /\ Len(uploads[1].calls) = 1 /\ Len(uploads[1].calls[1].Body) = 3
    /\ Len(uploads[2].calls) = 1 /\ Len(uploads[2].calls[1].Body) = 2

\* C5: for every event set, calculate_metrics reports total_scheduled_calls =
\* number of events and completed_calls = number of events whose status is
\* exactly "completed", so 0 <= completed_calls <= total_scheduled_calls.
C5_AggregateCounts ==
    Aggregated =>
        /\ metrics_df # Unbound
        /\ MetricsRow.total_scheduled_calls = Len(calendly_df.rows)
        /\ MetricsRow.completed_calls =
              Cardinality({k \in 1..Len(calendly_df.rows) :
                              calendly_df.rows[k].status = "completed"})
        /\ 0 <= MetricsRow.completed_calls
        /\ MetricsRow.completed_calls <= MetricsRow.total_scheduled_calls

\* C6: no exception escapes lambda_handler: a finished invocation returned 500
\* if some step raised, and 200 exactly when every step completed.
StepRaised ==
    \/ secret \in {"lookup_error", "parse_error"}
    \/ \E i \in 1..Len(httpCalls) : httpCalls[i].exc # ""
    \/ \E i \in 1..Len(uploads) : uploads[i].raised
    \/ (Aggregated /\ metrics_df = Unbound)
C6_HandlerNeverRaises ==
    /\ result # -1
    /\ (pc # "done" /\ pc # "idle") => result = 0
    /\ (pc = "done") =>
          /\ result \in {200, 500}
          /\ StepRaised => result = 500
          /\ (result = 200) =>
                /\ ~StepRaised
                /\ Len(uploads) = 2
                /\ Aggregated
                /\ calendly_df # Unbound
C6_Witness ==
    /\ pc = "done"
    /\ result = 500
    /\ Len(uploads) = 2
    /\ uploads[2].raised

\* C7: when the secret lookup fails, the document cannot be parsed, or the key
\* is absent, the invocation issues no HTTP call and performs no write.
C7_CredentialFailureIsFatal ==
    (secret \in {"lookup_error", "parse_error", "missing_key"}) =>
        /\ httpCalls = <<>>
        /\ putCalls = <<>>

\* C8: an invocation that extracted nothing because nothing exists and one that
\* extracted nothing because an upstream call answered non-200 return the same
\* status code and perform the same writes.
C8_ZeroEventRunsIndistinguishable ==
    \A a, b \in obs :
        (a.cause = "none_exist" /\ b.cause = "upstream_error") =>
            /\ a.statusCode = b.statusCode
            /\ a.writes = b.writes
C8_Witness ==
    /\ \E a \in obs : a.cause = "none_exist"
    /\ \E b \in obs : b.cause = "upstream_error"

\* C9 (as stated): the steps run in the order credential, organization, event
\* types, events, aggregation, persistence, persistence: no persistence call is
\* entered before the aggregation, and no write has happened in an invocation
\* whose aggregation failed.
StatedRank(s) ==
    CASE s = "credential"   -> 1
      [] s = "organization" -> 2
      [] s = "event_types"  -> 3
      [] s = "events"       -> 4
      [] s = "aggregate"    -> 5
      [] s = "persist"      -> 6
AggregationFailed == Aggregated /\ metrics_df = Unbound
C9_AggregateBeforePersist ==
    /\ \A i, j \in 1..Len(steps) : i < j => StatedRank(steps[i]) <= StatedRank(steps[j])
    /\ AggregationFailed => putCalls = <<>>

\* C9 (amended): the steps run in the order credential, organization, event
\* types, events (once per event type), persistence of the raw frame,
\* aggregation, persistence of the metrics; no write has happened in an
\* invocation whose aggregation failed.
IsPrefix(a, b) == Len(a) <= Len(b) /\ \A i \in 1..Len(a) : a[i] = b[i]
ProgramOrder(withTypes, k) ==
    <<"credential", "organization">>
    \o (IF withTypes THEN <<"event_types">> ELSE <<>>)
    \o [i \in 1..k |-> "events"]
    \o <<"persist", "aggregate", "persist">>
C9_StepOrder ==
    /\ \E withTypes \in BOOLEAN : \E k \in 0..Len(event_types) :
          /\ withTypes \/ k = 0
          /\ IsPrefix(steps, ProgramOrder(withTypes, k))
          /\ (LoopReturned /\ Len(steps) > 3) => k = Len(event_types)
    /\ AggregationFailed => putCalls = <<>>
C9_Witness ==
    /\ pc = "done"
    /\ result = 200
    /\ steps = ProgramOrder(TRUE, 2)
    /\ Len(uploads) = 2
    /\ uploads[1].s3_path[2] = "calendly_scheduled_calls"
    /\ uploads[1].calls # <<>>

\* C10: an invocation that returns 200 performed exactly two writes, to the
\* calendly_scheduled_calls key and then to the campaign_metrics key of the
\* load-time timestamp; one that returns 500 performed at most one; and all
\* invocations of the process write to these two keys only.
C10_TwoFixedKeys ==
    /\ timestamp = LoadTime
    /\ (result = 200) =>
          /\ Len(Performed(putCalls)) = 2
          /\ Performed(putCalls)[1].Key = <<"calendly/", "calendly_scheduled_calls", LoadTime>>
          /\ Performed(putCalls)[2].Key = <<"calendly/", "campaign_metrics", LoadTime>>
    /\ (result = 500) => Len(Performed(putCalls)) <= 1
    /\ \A i \in 1..Len(putCalls) :
          putCalls[i].Key \in {<<"calendly/", "calendly_scheduled_calls", LoadTime>>,
                               <<"calendly/", "campaign_metrics", LoadTime>>}
    /\ s3Keys \subseteq {<<"calendly/", "calendly_scheduled_calls", LoadTime>>,
                         <<"calendly/", "campaign_metrics", LoadTime>>}
C10_Witness ==
    /\ runs = 2
    /\ pc = "metrics"
    /\ Len(Performed(putCalls)) = 1
    /\ Cardinality(s3Keys) = 2
====
